---- MODULE Spec2Model ----
(***************************************************************************)
(* Model of the question-answering chain of                                *)
(* lab-chatbot-with-multi-query-retriever.ipynb:                           *)
(*                                                                         *)
(*   retriever = MultiQueryRetriever.from_llm(vectorstore.as_retriever(),  *)
(*                                            llm)                         *)
(*   _context  = RunnableParallel(context=retriever | _combine_documents,  *)
(*                                question=RunnablePassthrough())          *)
(*   chain     = _context | LLM_CONTEXT_PROMPT | llm                       *)
(*   ans       = chain.invoke(question)                                    *)
(*                                                                         *)
(* A string is a sequence of one-character strings, so that formatting,    *)
(* joining and substring tests are computed on the characters.  The long   *)
(* instruction sentence of LLM_CONTEXT_PROMPT is kept as one element.      *)
(* A Document is a record [page_content, metadata]; metadata is a record   *)
(* whose DOMAIN is the set of keys of the Python dict.                     *)
(*                                                                         *)
(* The retriever is langchain's MultiQueryRetriever with its defaults:     *)
(* _get_relevant_documents calls generate_queries (one llm call, its       *)
(* output split into lines), retrieve_documents (a for loop, one           *)
(* retriever.invoke per query, results appended to one list) and           *)
(* unique_union; none of the three catches an exception, and neither does  *)
(* the notebook.  The calls to OpenAI and Elasticsearch are atomic steps   *)
(* that either return a value or raise.                                    *)
(***************************************************************************)
EXTENDS Integers, Sequences, FiniteSets, TLC

VARIABLES
    pc,          \* position of chain.invoke: idle, expand, search, combine, prompt, synth, done, failed
    question,    \* the argument of chain.invoke
    queries,     \* MultiQueryRetriever: the generated queries (lines of the expansion output)
    qi,          \* retrieve_documents: index of the next query of the for loop
    documents,   \* retrieve_documents: the accumulated list
    retrieved,   \* the list the retriever hands to _combine_documents
    context,     \* result of _combine_documents
    prompt,      \* LLM_CONTEXT_PROMPT formatted with context and question
    ans,         \* the value chain.invoke returns
    failure,     \* the stage whose exception left chain.invoke
    served,      \* number of chain.invoke calls made so far
    vectorstore, \* module-level: the documents the Elasticsearch index holds
    hitsLog,     \* history: the result of each similarity search of this invocation
    stages,      \* history: the stages of this invocation, in the order they completed
    outs,        \* results of successive direct calls of _combine_documents
    records,     \* the records of temp.json that jq_schema ".[]" yields
    li,          \* JSONLoader: index (seq_num) of the next record
    loaded,      \* JSONLoader: the documents loaded so far
    lpc,         \* position of the ingestion: external, loading, load_failed, indexed
    mdCall       \* history: the last call of metadata_func

ingest == <<records, li, loaded, lpc, mdCall>>

vars == <<pc, question, queries, qi, documents, retrieved, context, prompt,
          ans, failure, served, vectorstore, hitsLog, stages, outs,
          records, li, loaded, lpc, mdCall>>

-----------------------------------------------------------------------------
(* Bounds *)

MaxLines == 3
MaxHits == 1
MaxQuestions == 2
MaxDocs == 3
MaxCalls == 2

(* Number of alternative questions the default expansion prompt of         *)
(* MultiQueryRetriever.from_llm asks for; the cell output shows 3.         *)
ExpansionCount == 3

-----------------------------------------------------------------------------
(* Documents *)

NamedA == [page_content |-> <<"a">>, metadata |-> [seq_num |-> 14, name |-> <<"T">>]]
BareA  == [page_content |-> <<"a">>, metadata |-> [seq_num |-> 14]]
NamedB == [page_content |-> <<"b">>, metadata |-> [seq_num |-> 15, name |-> <<"O">>]]
BareB  == [page_content |-> <<"b">>, metadata |-> [seq_num |-> 15]]
NamedEmpty == [page_content |-> <<>>, metadata |-> [seq_num |-> 1, name |-> <<"W">>]]

(* The index of the notebook's run holds passages with a name and passages *)
(* of the same seq_num without one (cell output of chain.invoke).          *)
IndexedDocs == {NamedA, BareA, NamedB}

AllDocs == {NamedA, BareA, NamedB, BareB, NamedEmpty}

Questions == {<<"q">>, <<"r">>}
Paraphrases == {<<"p">>}
Answers == {<<"A">>}

SeqsUpTo(S, n) == UNION {[1..k -> S] : k \in 0..n}

-----------------------------------------------------------------------------
(* Strings *)

(* s occurs in t as a contiguous substring (Python: s in t) *)
Contains(t, s) ==
    \E k \in 0..(Len(t) - Len(s)) :
        \A j \in 1..Len(s) : t[k + j] = s[j]

(* str.join *)
RECURSIVE join(_, _)
join(sep, strs) ==
    IF Len(strs) = 0 THEN <<>>
    ELSE IF Len(strs) = 1 THEN strs[1]
    ELSE strs[1] \o sep \o join(sep, Tail(strs))

-----------------------------------------------------------------------------
(* Prompts *)

DocPromptHead == <<"\n", "-", "-", "-", "\n", "S", "O", "U", "R", "C", "E", ":", " ">>
DocPromptMid  == <<"\n">>
DocPromptTail == <<"\n", "-", "-", "-", "\n">>

(* LLM_DOCUMENT_PROMPT.format(name=..., page_content=...) *)
LLM_DOCUMENT_PROMPT(name, page_content) ==
    DocPromptHead \o name \o DocPromptMid \o page_content \o DocPromptTail

ContextLabel == <<"c", "o", "n", "t", "e", "x", "t", ":", " ">>
QuestionLabel == <<"\n", " ", " ", " ", " ", "Q", "u", "e", "s", "t", "i", "o", "n", ":", " ", "\"">>
AnswerLabel == <<"\"", "\n", " ", " ", " ", " ", "A", "n", "s", "w", "e", "r", ":", "\n", " ", " ", " ", " ">>
Instruction == <<"You are an assistant for question-answering tasks. [...] \n    \n    ">>

(* A template that leaves the context section out when there is no context *)
LLM_CONTEXT_PROMPT_omitting(ctx, q) ==
    IF ctx = <<>>
    THEN Instruction \o QuestionLabel \o q \o AnswerLabel
    ELSE Instruction \o ContextLabel \o ctx \o QuestionLabel \o q \o AnswerLabel

(* LLM_CONTEXT_PROMPT formatted with {"context": ctx, "question": q} *)
LLM_CONTEXT_PROMPT(ctx, q) ==
    Instruction \o ContextLabel \o ctx \o QuestionLabel \o q \o AnswerLabel

(* langchain format_document: the prompt's variables are taken from        *)
(* page_content and the metadata; a missing variable raises ValueError.    *)
format_document(doc) ==
    IF "name" \in DOMAIN doc.metadata
    THEN LLM_DOCUMENT_PROMPT(doc.metadata.name, doc.page_content)
    ELSE <<"ValueError">>

DocumentSeparator == <<"\n", "\n">>

-----------------------------------------------------------------------------
(* Context assembly *)

(* The loop without the 'name' test: every document is formatted *)
RECURSIVE combine_loop_no_name_test(_, _, _)
combine_loop_no_name_test(docs, i, doc_strings) ==
    IF i > Len(docs) THEN doc_strings
    ELSE IF docs[i].page_content = <<>>
         THEN combine_loop_no_name_test(docs, i + 1, doc_strings)
    ELSE combine_loop_no_name_test(docs, i + 1,
                                   Append(doc_strings, format_document(docs[i])))

(* The loop without the page_content test *)
RECURSIVE combine_loop_no_body_test(_, _, _)
combine_loop_no_body_test(docs, i, doc_strings) ==
    IF i > Len(docs) THEN doc_strings
    ELSE IF "name" \notin DOMAIN docs[i].metadata
         THEN combine_loop_no_body_test(docs, i + 1, doc_strings)
    ELSE combine_loop_no_body_test(docs, i + 1,
                                   Append(doc_strings, format_document(docs[i])))

(* The for loop of _combine_documents: doc_strings after documents 1..i-1  *)
(* have been visited, continued to the end of docs.                        *)
RECURSIVE combine_loop(_, _, _)
combine_loop(docs, i, doc_strings) ==
    IF i > Len(docs) THEN doc_strings
    ELSE IF "name" \notin DOMAIN docs[i].metadata
         THEN combine_loop(docs, i + 1, doc_strings)
    ELSE IF docs[i].page_content = <<>>
         THEN combine_loop(docs, i + 1, doc_strings)
    ELSE combine_loop(docs, i + 1, Append(doc_strings, format_document(docs[i])))

_combine_documents(docs) ==
    join(DocumentSeparator, combine_loop(docs, 1, <<>>))

-----------------------------------------------------------------------------
(* MultiQueryRetriever *)

(* vectorstore.as_retriever(): similarity search with the default k *)
TopK == 4

(* A union that keeps every occurrence *)
_unique_documents_keeping_all(docs) == docs

(* unique_union: the documents in first-seen order, a document being       *)
(* dropped when an equal document (page_content and metadata) precedes it. *)
_unique_documents(docs) ==
    LET keep(i) == \A j \in 1..(i - 1) : docs[j] # docs[i]
        F[i \in 0..Len(docs)] ==
            IF i = 0 THEN <<>>
            ELSE IF keep(i) THEN Append(F[i - 1], docs[i]) ELSE F[i - 1]
    IN F[Len(docs)]

(* The results a similarity search can return *)
SearchResults ==
    {h \in SeqsUpTo(vectorstore, MaxHits) : Len(h) <= TopK}

-----------------------------------------------------------------------------
(* Ingestion: JSONLoader with metadata_func *)

MaxRecords == 2

RequiredFields == {"name", "summary", "url", "category", "updated_at"}

(* A record of temp.json with every field, and the records that lack one   *)
(* of the five fields metadata_func asks for.                              *)
CompleteRecord ==
    [content |-> <<"a">>, name |-> <<"T">>, summary |-> <<"s">>,
     url |-> <<"u">>, category |-> <<"c">>, updated_at |-> <<"d">>]

RecordWithout(f) == [k \in (DOMAIN CompleteRecord) \ {f} |-> CompleteRecord[k]]

Records == {CompleteRecord} \cup {RecordWithout(f) : f \in RequiredFields}

(* The metadata JSONLoader passes to metadata_func for record number i *)
LoaderMetadata(i) == [source |-> <<"temp.json">>, seq_num |-> i]

NoCall == [returns |-> "nocall"]

(* A metadata_func that forgets to copy the name *)
metadata_func_without_name(record, metadata) ==
    IF RequiredFields \subseteq DOMAIN record
    THEN LET copied == RequiredFields \ {"name"}
         IN [returns |-> "metadata",
             metadata |-> [k \in (DOMAIN metadata) \cup copied |->
                              IF k \in copied THEN record[k] ELSE metadata[k]]]
    ELSE [returns |-> "None", metadata |-> metadata]

(* metadata_func(record, metadata): returns is "metadata" when the         *)
(* function returns the dict it was given and "None" when it returns None; *)
(* metadata is that dict as the call leaves it.                            *)
metadata_func(record, metadata) ==
    IF RequiredFields \subseteq DOMAIN record
    THEN [returns |-> "metadata",
          metadata |-> [k \in (DOMAIN metadata) \cup RequiredFields |->
                           IF k \in RequiredFields THEN record[k] ELSE metadata[k]]]
    ELSE [returns |-> "None", metadata |-> metadata]

(* JSONLoader, one record: metadata_func returned the dict; the Document   *)
(* is built from the content key and that dict.                            *)
LoadRecord ==
    /\ lpc = "loading"
    /\ li <= Len(records)
    /\ LET call == metadata_func(records[li], LoaderMetadata(li))
       IN /\ call.returns = "metadata"
          /\ loaded' = Append(loaded, [page_content |-> records[li].content,
                                       metadata |-> call.metadata])
          /\ mdCall' = [returns |-> call.returns, record |-> records[li],
                        before |-> LoaderMetadata(li), after |-> call.metadata]
    /\ li' = li + 1
    /\ UNCHANGED <<records, lpc>>
    /\ UNCHANGED <<pc, question, queries, qi, documents, retrieved, context,
                   prompt, ans, failure, served, vectorstore, hitsLog, stages, outs>>

(* JSONLoader, one record: metadata_func returned None; the loader has no  *)
(* test for it and Document(page_content=text, metadata=None) raises, so   *)
(* load_and_split raises and docs is not assigned.                         *)
LoadRaise ==
    /\ lpc = "loading"
    /\ li <= Len(records)
    /\ LET call == metadata_func(records[li], LoaderMetadata(li))
       IN /\ call.returns = "None"
          /\ mdCall' = [returns |-> call.returns, record |-> records[li],
                        before |-> LoaderMetadata(li), after |-> call.metadata]
    /\ lpc' = "load_failed"
    /\ UNCHANGED <<records, li, loaded>>
    /\ UNCHANGED <<pc, question, queries, qi, documents, retrieved, context,
                   prompt, ans, failure, served, vectorstore, hitsLog, stages, outs>>

(* load_and_split returns: every passage here is shorter than chunk_size,  *)
(* so each document is one chunk with the document's metadata; the index   *)
(* chatbot_index then holds these passages and no others.                  *)
SplitAndIndex ==
    /\ lpc = "loading"
    /\ li > Len(records)
    /\ vectorstore' = {loaded[i] : i \in DOMAIN loaded}
    /\ lpc' = "indexed"
    /\ pc' = "idle"
    /\ UNCHANGED <<records, li, loaded, mdCall>>
    /\ UNCHANGED <<question, queries, qi, documents, retrieved, context,
                   prompt, ans, failure, served, hitsLog, stages, outs>>

-----------------------------------------------------------------------------
(* chain.invoke *)

Init ==
    /\ pc = "idle"
    /\ question = <<>>
    /\ queries = <<>>
    /\ qi = 1
    /\ documents = <<>>
    /\ retrieved = <<>>
    /\ context = <<>>
    /\ prompt = <<>>
    /\ ans = <<>>
    /\ failure = "none"
    /\ served = 0
    /\ vectorstore = IndexedDocs
    /\ hitsLog = <<>>
    /\ stages = <<>>
    /\ outs = <<>>
    /\ records = <<>>
    /\ li = 1
    /\ loaded = <<>>
    /\ lpc = "external"
    /\ mdCall = NoCall

(* An invocation whose document list outlives the previous invocation *)
InvokeSharingDocuments ==
    /\ pc \in {"idle", "done", "failed"}
    /\ served < MaxQuestions
    /\ \E q \in Questions : question' = q
    /\ pc' = "expand"
    /\ queries' = <<>>
    /\ qi' = 1
    /\ retrieved' = <<>>
    /\ context' = <<>>
    /\ prompt' = <<>>
    /\ ans' = <<>>
    /\ failure' = "none"
    /\ served' = served + 1
    /\ hitsLog' = <<>>
    /\ stages' = <<>>
    /\ UNCHANGED ingest
    /\ UNCHANGED <<documents, vectorstore, outs>>

(* chain.invoke(q): every value of the invocation is a fresh local; the    *)
(* retriever branch of RunnableParallel calls generate_queries.            *)
Invoke ==
    /\ pc \in {"idle", "done", "failed"}
    /\ served < MaxQuestions
    /\ \E q \in Questions : question' = q
    /\ pc' = "expand"
    /\ queries' = <<>>
    /\ qi' = 1
    /\ documents' = <<>>
    /\ retrieved' = <<>>
    /\ context' = <<>>
    /\ prompt' = <<>>
    /\ ans' = <<>>
    /\ failure' = "none"
    /\ served' = served + 1
    /\ hitsLog' = <<>>
    /\ stages' = <<>>
    /\ UNCHANGED ingest
    /\ UNCHANGED <<vectorstore, outs>>

(* generate_queries: llm_chain.invoke returns the lines of the model's     *)
(* output; retrieve_documents starts its loop over them.                   *)
ExpandReturn ==
    /\ pc = "expand"
    /\ \E lines \in SeqsUpTo(Paraphrases, MaxLines) : queries' = lines
    /\ qi' = 1
    /\ pc' = "search"
    /\ stages' = Append(stages, "expanded")
    /\ UNCHANGED ingest
    /\ UNCHANGED <<question, documents, retrieved, context, prompt, ans,
                   failure, served, vectorstore, hitsLog, outs>>

(* generate_queries: llm_chain.invoke raises; nothing catches it. *)
ExpandFail ==
    /\ pc = "expand"
    /\ pc' = "failed"
    /\ failure' = "expansion"
    /\ UNCHANGED ingest
    /\ UNCHANGED <<question, queries, qi, documents, retrieved, context,
                   prompt, ans, served, vectorstore, hitsLog, stages, outs>>

(* retrieve_documents, one iteration: docs = retriever.invoke(query);      *)
(* documents.extend(docs)                                                  *)
SearchReturn ==
    /\ pc = "search"
    /\ qi <= Len(queries)
    /\ \E hits \in SearchResults :
        /\ documents' = documents \o hits
        /\ hitsLog' = Append(hitsLog, hits)
    /\ qi' = qi + 1
    /\ stages' = Append(stages, "searched")
    /\ UNCHANGED ingest
    /\ UNCHANGED <<pc, question, queries, retrieved, context, prompt, ans,
                   failure, served, vectorstore, outs>>

(* retrieve_documents, one iteration: retriever.invoke(query) raises;      *)
(* nothing catches it.                                                     *)
SearchFail ==
    /\ pc = "search"
    /\ qi <= Len(queries)
    /\ pc' = "failed"
    /\ failure' = "search"
    /\ UNCHANGED ingest
    /\ UNCHANGED <<question, queries, qi, documents, retrieved, context,
                   prompt, ans, served, vectorstore, hitsLog, stages, outs>>

(* A retriever that returns before its loop over the queries is over *)
UniqueUnionEarly ==
    /\ pc = "search"
    /\ retrieved' = _unique_documents(documents)
    /\ pc' = "combine"
    /\ stages' = Append(stages, "merged")
    /\ UNCHANGED ingest
    /\ UNCHANGED <<question, queries, qi, documents, context, prompt, ans,
                   failure, served, vectorstore, hitsLog, outs>>

(* The loop is over: return self.unique_union(documents) *)
UniqueUnion ==
    /\ pc = "search"
    /\ qi > Len(queries)
    /\ retrieved' = _unique_documents(documents)
    /\ pc' = "combine"
    /\ stages' = Append(stages, "merged")
    /\ UNCHANGED ingest
    /\ UNCHANGED <<question, queries, qi, documents, context, prompt, ans,
                   failure, served, vectorstore, hitsLog, outs>>

(* retriever | _combine_documents *)
Combine ==
    /\ pc = "combine"
    /\ context' = _combine_documents(retrieved)
    /\ pc' = "prompt"
    /\ stages' = Append(stages, "assembled")
    /\ UNCHANGED ingest
    /\ UNCHANGED <<question, queries, qi, documents, retrieved, prompt, ans,
                   failure, served, vectorstore, hitsLog, outs>>

(* _context | LLM_CONTEXT_PROMPT *)
FormatPrompt ==
    /\ pc = "prompt"
    /\ prompt' = LLM_CONTEXT_PROMPT(context, question)
    /\ pc' = "synth"
    /\ stages' = Append(stages, "prompted")
    /\ UNCHANGED ingest
    /\ UNCHANGED <<question, queries, qi, documents, retrieved, context, ans,
                   failure, served, vectorstore, hitsLog, outs>>

(* LLM_CONTEXT_PROMPT | llm: the model's text is the value of chain.invoke *)
SynthReturn ==
    /\ pc = "synth"
    /\ \E a \in Answers : ans' = a
    /\ pc' = "done"
    /\ stages' = Append(stages, "synthesis")
    /\ UNCHANGED ingest
    /\ UNCHANGED <<question, queries, qi, documents, retrieved, context,
                   prompt, failure, served, vectorstore, hitsLog, outs>>

(* llm raises; chain.invoke raises, ans is not assigned *)
SynthFail ==
    /\ pc = "synth"
    /\ pc' = "failed"
    /\ failure' = "synthesis"
    /\ stages' = Append(stages, "synthesis")
    /\ UNCHANGED ingest
    /\ UNCHANGED <<question, queries, qi, documents, retrieved, context,
                   prompt, ans, served, vectorstore, hitsLog, outs>>

Next ==
    \/ Invoke
    \/ ExpandFail
    \/ ExpandReturn
    \/ SearchFail
    \/ SearchReturn
    \/ UniqueUnion
    \/ Combine
    \/ FormatPrompt
    \/ SynthFail
    \/ SynthReturn

Spec == Init /\ [][Next]_vars

-----------------------------------------------------------------------------
(* The notebook from the ingestion on: temp.json is loaded, the index      *)
(* holds the loaded passages, and questions are asked.                     *)

InitIngest ==
    /\ pc = "setup"
    /\ question = <<>>
    /\ queries = <<>>
    /\ qi = 1
    /\ documents = <<>>
    /\ retrieved = <<>>
    /\ context = <<>>
    /\ prompt = <<>>
    /\ ans = <<>>
    /\ failure = "none"
    /\ served = 0
    /\ vectorstore = {}
    /\ hitsLog = <<>>
    /\ stages = <<>>
    /\ outs = <<>>
    /\ records \in SeqsUpTo(Records, MaxRecords)
    /\ li = 1
    /\ loaded = <<>>
    /\ lpc = "loading"
    /\ mdCall = NoCall

NextIngest ==
    \/ LoadRecord
    \/ LoadRaise
    \/ SplitAndIndex
    \/ Next

SpecIngest == InitIngest /\ [][NextIngest]_vars

-----------------------------------------------------------------------------
(* _combine_documents called directly on a list of documents *)

InitCombine ==
    /\ pc = "direct"
    /\ retrieved \in SeqsUpTo(AllDocs, MaxDocs)
    /\ outs = <<>>
    /\ question = <<>>
    /\ queries = <<>>
    /\ qi = 1
    /\ documents = <<>>
    /\ context = <<>>
    /\ prompt = <<>>
    /\ ans = <<>>
    /\ failure = "none"
    /\ served = 0
    /\ vectorstore = IndexedDocs
    /\ hitsLog = <<>>
    /\ stages = <<>>
    /\ records = <<>>
    /\ li = 1
    /\ loaded = <<>>
    /\ lpc = "external"
    /\ mdCall = NoCall

(* A call that removes the documents it has visited from the caller's list *)
CombineCallDraining ==
    /\ pc = "direct"
    /\ Len(outs) < MaxCalls
    /\ outs' = Append(outs, _combine_documents(retrieved))
    /\ retrieved' = <<>>
    /\ UNCHANGED ingest
    /\ UNCHANGED <<pc, question, queries, qi, documents, context,
                   prompt, ans, failure, served, vectorstore, hitsLog, stages>>

(* One call _combine_documents(docs); the function reads docs and builds   *)
(* a new list and a new string.                                            *)
CombineCall ==
    /\ pc = "direct"
    /\ Len(outs) < MaxCalls
    /\ outs' = Append(outs, _combine_documents(retrieved))
    /\ UNCHANGED ingest
    /\ UNCHANGED <<pc, question, queries, qi, documents, retrieved, context,
                   prompt, ans, failure, served, vectorstore, hitsLog, stages>>

NextCombine == CombineCall

SpecCombine == InitCombine /\ [][NextCombine]_vars

-----------------------------------------------------------------------------
(* Properties *)

Happened(stage) == \E i \in DOMAIN stages : stages[i] = stage

RECURSIVE Flatten(_)
Flatten(lists) ==
    IF lists = <<>> THEN <<>> ELSE Head(lists) \o Flatten(Tail(lists))

Occurrences(d, docs) == Cardinality({i \in DOMAIN docs : docs[i] = d})

HasName(d) == "name" \in DOMAIN d.metadata

HasNameAndBody(d) == HasName(d) /\ Len(d.page_content) > 0

RemoveAt(docs, i) == [j \in 1..(Len(docs) - 1) |-> IF j < i THEN docs[j] ELSE docs[j + 1]]

C2_ExpansionFallsBack ==
    /\ failure # "expansion"
    /\ Happened("expanded") => Len(queries) \in 1..ExpansionCount

(* C3: a similarity search that fails does not fail the invocation, and    *)
(* the merged list holds every document the other searches returned.       *)
C3_SearchFailureTolerated ==
    /\ failure # "search"
    /\ Happened("merged") =>
          \A k \in DOMAIN hitsLog : \A m \in DOMAIN hitsLog[k] :
              Occurrences(hitsLog[k][m], retrieved) > 0

(* The strings _combine_documents has returned for the list retrieved *)
Assembled ==
    {outs[k] : k \in DOMAIN outs} \cup (IF Happened("assembled") THEN {context} ELSE {})

C6_EmptyContextStillAsked ==
    (\A i \in DOMAIN retrieved : ~HasNameAndBody(retrieved[i])) =>
        /\ pc = "combine" => ENABLED Combine
        /\ Happened("assembled") => context = <<>>
        /\ Happened("prompted") =>
              /\ prompt = Instruction \o ContextLabel \o QuestionLabel
                              \o question \o AnswerLabel
              /\ pc = "synth" => ENABLED SynthReturn
        /\ failure \in {"none", "expansion", "search", "synthesis"}
        /\ pc = "failed" /\ Happened("merged") => failure = "synthesis"

C6_Witness ==
    /\ pc = "done"
    /\ retrieved # <<>>
    /\ \A i \in DOMAIN retrieved : ~HasNameAndBody(retrieved[i])

(* C7: within one invocation a search comes after the expansion call has   *)
(* returned, context assembly after every query has been searched, and     *)
(* the synthesis call after context assembly.                              *)
C7_StagesInOrder ==
    \A i \in DOMAIN stages :
        /\ stages[i] = "searched" =>
              \E j \in 1..(i - 1) : stages[j] = "expanded"
        /\ stages[i] = "assembled" =>
              /\ Cardinality({j \in 1..(i - 1) : stages[j] = "searched"}) = Len(queries)
              /\ \A j \in DOMAIN stages : j > i => stages[j] # "searched"
        /\ stages[i] = "synthesis" =>
              \E j \in 1..(i - 1) : stages[j] = "assembled"

C7_Witness ==
    /\ pc = "done"
    /\ Len(queries) = ExpansionCount
    /\ Cardinality({j \in DOMAIN stages : stages[j] = "searched"}) = ExpansionCount

(* C8: the only failure that ends an invocation is the failure of the      *)
(* synthesis call, which leaves no answer.                                 *)
C8_OnlySynthesisFatal ==
    /\ pc = "failed" => failure = "synthesis"
    /\ failure = "synthesis" => (pc = "failed" /\ ans = <<>>)

(* C9: the values of an invocation are those its own question and the      *)
(* responses it received determine, whatever the invocations before it     *)
(* did, and the index contents are the ones the module set up.             *)
C9_InvocationIsolated ==
    /\ vectorstore = IndexedDocs
    /\ Len(hitsLog) <= Len(queries)
    /\ documents = Flatten(hitsLog)
    /\ retrieved = IF Happened("merged") THEN _unique_documents(Flatten(hitsLog)) ELSE <<>>
    /\ context = IF Happened("assembled") THEN _combine_documents(retrieved) ELSE <<>>
    /\ prompt = IF Happened("prompted") THEN LLM_CONTEXT_PROMPT(context, question) ELSE <<>>
    /\ (ans # <<>>) <=> (pc = "done")

C9_Witness ==
    /\ served = 2
    /\ pc = "done"
    /\ retrieved # <<>>

(* The string _combine_documents is to return, written from the list of    *)
(* the documents that have a name and a body.                              *)
ExpectedContext(docs) ==
    LET kept == SelectSeq(docs, HasNameAndBody)
        entry(d) == DocPromptHead \o d.metadata.name \o DocPromptMid
                        \o d.page_content \o DocPromptTail
        G[n \in 0..Len(kept)] ==
            IF n = 0 THEN <<>>
            ELSE IF n = 1 THEN entry(kept[1])
            ELSE G[n - 1] \o DocumentSeparator \o entry(kept[n])
    IN G[Len(kept)]

(* C10: the result of _combine_documents is the entries of the documents   *)
(* that have a name and a non-empty body, one entry each, in the order of  *)
(* the input, with the separator between them.                             *)
C10_CombineIsJoinOfValid ==
    \A k \in DOMAIN outs : outs[k] = ExpectedContext(retrieved)

C10_Witness ==
    /\ Len(outs) > 0
    /\ \E i, j, e \in DOMAIN retrieved :
          /\ i < e /\ e < j
          /\ HasNameAndBody(retrieved[i])
          /\ HasNameAndBody(retrieved[j])
          /\ retrieved[i] # retrieved[j]
          /\ HasName(retrieved[e]) /\ retrieved[e].page_content = <<>>

(* A step of the invocation in progress: an external call returns or     *)
(* raises, or a local stage runs.                                          *)
RunStep ==
    \/ ExpandFail \/ ExpandReturn \/ SearchFail \/ SearchReturn
    \/ UniqueUnion \/ Combine \/ FormatPrompt \/ SynthFail \/ SynthReturn

(* C11: an invocation whose expansion call returned and that has no step   *)
(* left has returned an answer or has ended with the error of the          *)
(* synthesis call, every query having been searched; a search that raises  *)
(* (a timeout included) counts as an empty result and does not end it.     *)
C11_EndsInAnswerOrSynthesisError ==
    (Happened("expanded") /\ ~ENABLED RunStep) =>
        \/ pc = "done" /\ ans \in Answers
        \/ pc = "failed" /\ failure = "synthesis" /\ Len(hitsLog) = Len(queries)

(* C13: a call of metadata_func on a record with the five fields returns   *)
(* the metadata it was given with exactly those five keys set to the       *)
(* record's values and its other keys as they were; on a record that lacks *)
(* one of them it returns None, leaves the metadata as it was, and the     *)
(* load goes on without that document.                                     *)
C13_MetadataFuncSetsFiveOrSkips ==
    /\ mdCall.returns = "metadata" =>
          /\ RequiredFields \subseteq DOMAIN mdCall.record
          /\ DOMAIN mdCall.after = (DOMAIN mdCall.before) \cup RequiredFields
          /\ \A k \in RequiredFields : mdCall.after[k] = mdCall.record[k]
          /\ \A k \in (DOMAIN mdCall.before) \ RequiredFields :
                mdCall.after[k] = mdCall.before[k]
    /\ mdCall.returns = "None" =>
          /\ ~(RequiredFields \subseteq DOMAIN mdCall.record)
          /\ mdCall.after = mdCall.before
          /\ lpc # "load_failed"

(* C14: every document the loader admits has the key 'name', so once the   *)
(* index holds the loaded passages and no others, every document the       *)
(* retriever returns has it and _combine_documents skips none for a        *)
(* missing name.                                                           *)
C14_IngestedDocumentsHaveName ==
    /\ \A i \in DOMAIN loaded : HasName(loaded[i])
    /\ lpc = "indexed" =>
          /\ \A d \in vectorstore : HasName(d)
          /\ \A i \in DOMAIN documents : HasName(documents[i])
          /\ \A i \in DOMAIN retrieved : HasName(retrieved[i])
          /\ Happened("assembled") =>
                Len(combine_loop(retrieved, 1, <<>>)) =
                    Cardinality({i \in DOMAIN retrieved : retrieved[i].page_content # <<>>})

C14_Witness ==
    /\ lpc = "indexed"
    /\ Happened("assembled")
    /\ retrieved # <<>>
    /\ context # <<>>

====
